---- MODULE Spec2Model ----
(***************************************************************************)
(* Pi Coin: the pegged ledger contract (pi_coin/src/lib.rs) and its price  *)
(* oracle contract (pi_coin/oracle/pi_coin_oracle.rs) as one state machine.*)
(* Each contract keeps one record in its instance storage; every public    *)
(* entry point is one atomic action (a Soroban invocation runs to          *)
(* completion, and an invocation that traps leaves storage untouched).     *)
(***************************************************************************)
EXTENDS Integers, Sequences, FiniteSets, TLC

VARIABLES
  data,         \* ledger instance storage, key "data": NoData or a PiCoinData
  zkp_base,     \* ledger instance storage, key "zkp_base": NoValue or a BytesN<32>
  oracle_data,  \* oracle instance storage, key "oracle_data": NoData or an OracleData
  zkp_proof,    \* oracle instance storage, key "zkp_proof": NoValue or a BytesN<32>
  ledger,       \* env.ledger(): [timestamp, sequence]
  last,         \* the last invocation: entry point, arguments, returned value
  tick,         \* parity of the number of invocations made so far
  minted        \* history: the amounts of the mints that returned Ok, oldest first
                \* (kept by no contract; an observer's record of the mints)

vars == <<data, zkp_base, oracle_data, zkp_proof, ledger, last, tick, minted>>

(***************************************************************************)
(* Bounds of the model and the small sets the inputs are drawn from.       *)
(***************************************************************************)
Holders == {"h1", "h2"}

LedgerContract == "pi_coin"

OracleContract == "pi_oracle"

CollateralAssets == {"usdc"}

GovernanceAddrs == {"gov"}

Proposals == {"rebase"}

Assets == {"PI", "USD"}

(***************************************************************************)
(* i128 values.  The amounts and prices of the contracts exceed the range  *)
(* of the checker's integers, so an i128 is kept as hi * 1000000 + lo with *)
(* 0 <= lo < 1000000; none of the values met comes near the i128 limits.   *)
(***************************************************************************)
I128(h, l) == [hi |-> h + (l \div 1000000), lo |-> l % 1000000]

Plus(x, y) == I128(x.hi + y.hi, x.lo + y.lo)

Minus(x, y) == I128(x.hi - y.hi, x.lo - y.lo)

Less(x, y) == x.hi < y.hi \/ (x.hi = y.hi /\ x.lo < y.lo)

\* i128::abs
Abs(x) == IF Less(x, I128(0, 0)) THEN Minus(I128(0, 0), x) ELSE x

\* the sum of a sequence of i128 amounts
RECURSIVE SumOf(_)
SumOf(amounts) ==
  IF amounts = <<>> THEN I128(0, 0)
  ELSE Plus(amounts[1], SumOf(Tail(amounts)))

\* amount as u8 saturating at the limits of u8 instead of truncating
AsU8_Saturating(amount) ==
  IF amount.hi < 0 THEN 0
  ELSE IF amount.hi > 0 \/ amount.lo > 255 THEN 255
  ELSE amount.lo

\* amount as u8: the low 8 bits of the two's-complement i128 (1000000 % 256 = 64)
AsU8(amount) == ((amount.hi % 256) * 64 + amount.lo) % 256

\* total_supply: 100_000_000_000
TotalSupply == I128(100000, 0)

\* peg_value: 314_159_000_000
PegValue == I128(314159, 0)

\* the answer of check_collateral: 100_000_000_000
CollateralBalance == I128(100000, 0)

\* -1, 0, 1_000_000, 100_000_000_000, 100_000_000_001, 200_000_000_000
Amounts == {I128(0, -1), I128(0, 0), I128(1, 0), CollateralBalance,
            Plus(CollateralBalance, I128(0, 1)), I128(200000, 0)}

\* the number of ledgers (timestamp and sequence number of env.ledger()) explored
NumLedgers == 3

\* test.rs:99 sets the timestamp 1000000
LedgerInfos == <<[timestamp |-> 0, sequence |-> 0],
                 [timestamp |-> 999, sequence |-> 7],
                 [timestamp |-> 1000000, sequence |-> 5003],
                 [timestamp |-> 1000990, sequence |-> 5004],
                 [timestamp |-> 2000015, sequence |-> 9999]>>

Ledgers == {LedgerInfos[i] : i \in 1..NumLedgers}

(***************************************************************************)
(* Values.                                                                 *)
(***************************************************************************)
\* a storage key that holds no record, and one that holds no BytesN<32>
NoData == [stored |-> FALSE]

NoValue == [kind |-> "none", pre |-> [lit |-> "", nums |-> <<>>]]

Unset == "Unset"

\* enum PiCoinSource
Mining == "Mining"

Rewards == "Rewards"

P2P == "P2P"

Invalid == "Invalid"

PiCoinSource == {Mining, Rewards, P2P, Invalid}

\* the discriminant of a source, the payload signed by mint
SourceVal(source) ==
  CASE source = Mining -> 0
    [] source = Rewards -> 1
    [] source = P2P -> 2
    [] source = Invalid -> 3

\* A byte string: a literal or signer label and its numeric content.
BytesOf(label, nums) == [lit |-> label, nums |-> nums]

\* env.crypto().sha256: a digest, distinct for distinct inputs and never all-zero
Sha256(bytes) == [kind |-> "digest", pre |-> bytes]

\* BytesN::from_array(&env, &[0; 32])
ZeroHash == [kind |-> "zero", pre |-> BytesOf("", <<>>)]

\* env.crypto().ed25519_sign(key, msg): deterministic in the key and the message
Ed25519Sign(key, nums) == BytesOf("sig:" \o key, nums)

\* env.crypto().ed25519_public_key(address)
Ed25519PublicKey(addr) == "pk:" \o addr

\* storage.get(key).unwrap_or(BytesN::from_array(&env, &[0; 32]))
UnwrapOrZero(slot) == IF slot = NoValue THEN ZeroHash ELSE slot

\* data.provenance.get(holder).unwrap_or(PiCoinSource::Invalid)
ProvenanceOf(d, holder) ==
  IF d.provenance[holder] = Unset THEN Invalid ELSE d.provenance[holder]

\* the record of an invocation
NoAmount == I128(0, 0)

Call(op, a, b, amount, source, result, value) ==
  [op |-> op, a |-> a, b |-> b, amount |-> amount, source |-> source,
   result |-> result, value |-> value]

\* the host traps (require_auth denied, unwrap of a missing record): nothing is stored
Trap(call) ==
  /\ last' = call
  /\ tick' = 1 - tick
  /\ UNCHANGED <<data, zkp_base, oracle_data, zkp_proof, ledger>>

(***************************************************************************)
(* The ledger contract.                                                    *)
(***************************************************************************)
\* fn check_collateral
check_collateral(collateral, user) == CollateralBalance


\* query_ai_oracle without the reduction of the timestamp modulo 1000
query_ai_oracle_NoModulo(oracle) == Plus(PegValue, I128(0, ledger.timestamp))

\* fn query_ai_oracle
query_ai_oracle(oracle) == Plus(PegValue, I128(0, ledger.timestamp % 1000))

\* the PiCoinData built by initialize
InitialData(collateral_asset, oracle, governance) ==
  [symbol |-> "PI",
   total_supply |-> TotalSupply,
   peg_value |-> PegValue,
   collateral_asset |-> collateral_asset,
   oracle_address |-> oracle,
   governance_address |-> governance,
   anti_fraud_hash |-> Sha256(BytesOf("PiCoin-Ultimate-Hyper-Tech-Unique", <<>>)),
   provenance |-> [h \in Holders |-> Unset],
   quantum_provenance_hash |-> Sha256(BytesOf("PiCoin-Provenance-Quantum-Unmatched", <<>>))]

\* pub fn initialize
initialize(admin, auth, collateral_asset, oracle, governance) ==
  LET call(r) == Call("initialize", admin, collateral_asset, NoAmount, "", r, NoAmount) IN
  IF ~auth THEN Trap(call("AuthDenied"))
  ELSE /\ data' = InitialData(collateral_asset, oracle, governance)
       /\ last' = call("Ok")
       /\ tick' = 1 - tick
       /\ UNCHANGED <<zkp_base, oracle_data, zkp_proof, ledger>>


\* mint with the collateral check made before the source check
MintResult_CollateralFirst(d, to, amount, source) ==
  IF Less(check_collateral(d.collateral_asset, to), amount) THEN "InsufficientCollateral"
  ELSE IF source # Mining /\ source # Rewards /\ source # P2P THEN "InvalidSource"
  ELSE "Ok"

\* mint refusing an amount equal to the collateral
MintResult_InclusiveLimit(d, to, amount, source) ==
  IF source # Mining /\ source # Rewards /\ source # P2P THEN "InvalidSource"
  ELSE IF ~Less(amount, check_collateral(d.collateral_asset, to)) THEN "InsufficientCollateral"
  ELSE "Ok"

\* mint refusing an amount that takes the amounts minted so far past total_supply
MintResult_SupplyCapped(d, to, amount, source) ==
  IF source # Mining /\ source # Rewards /\ source # P2P THEN "InvalidSource"
  ELSE IF Less(check_collateral(d.collateral_asset, to), amount) THEN "InsufficientCollateral"
  ELSE IF Less(d.total_supply, Plus(SumOf(minted), amount)) THEN "InsufficientCollateral"
  ELSE "Ok"

\* the outcome of mint, from the source check and the collateral check
MintResult(d, to, amount, source) ==
  IF source # Mining /\ source # Rewards /\ source # P2P THEN "InvalidSource"
  ELSE IF Less(check_collateral(d.collateral_asset, to), amount) THEN "InsufficientCollateral"
  ELSE "Ok"


\* mint storing the provenance hash in anti_fraud_hash
MintData_WrongHashField(d, to, source) ==
  [d EXCEPT !.provenance[to] = source,
            !.anti_fraud_hash =
               Sha256(Ed25519Sign(LedgerContract, <<SourceVal(source)>>))]

\* mint keeping the source a holder already has
MintData_KeepFirst(d, to, source) ==
  [d EXCEPT !.provenance[to] = IF @ = Unset THEN source ELSE @,
            !.quantum_provenance_hash =
               Sha256(Ed25519Sign(LedgerContract, <<SourceVal(source)>>))]

\* the PiCoinData stored by a successful mint
MintData(d, to, source) ==
  [d EXCEPT !.provenance[to] = source,
            !.quantum_provenance_hash =
               Sha256(Ed25519Sign(LedgerContract, <<SourceVal(source)>>))]


\* mint storing the provenance before the collateral check
mint_ProvenanceBeforeCollateral(to, amount, source) ==
  LET call(r) == Call("mint", to, "", amount, source, r, NoAmount) IN
  IF data = NoData THEN Trap(call("Panic"))
  ELSE LET r == MintResult(data, to, amount, source) IN
       /\ data' = IF r # "InvalidSource" THEN MintData(data, to, source) ELSE data
       /\ last' = call(r)
       /\ tick' = 1 - tick
       /\ UNCHANGED <<zkp_base, oracle_data, zkp_proof, ledger>>

\* pub fn mint
mint(to, amount, source) ==
  LET call(r) == Call("mint", to, "", amount, source, r, NoAmount) IN
  IF data = NoData THEN Trap(call("Panic"))
  ELSE LET r == MintResult(data, to, amount, source) IN
       /\ data' = IF r = "Ok" THEN MintData(data, to, source) ELSE data
       /\ last' = call(r)
       /\ tick' = 1 - tick
       /\ UNCHANGED <<zkp_base, oracle_data, zkp_proof, ledger>>

\* the simulated proof of transfer
TransferProof(amount) == Sha256(BytesOf("", <<AsU8(amount), 42>>))


\* transfer skipping the anti-forgery check while no base is registered
TransferResult_UnsetBaseAccepts(d, base, from, amount) ==
  IF ProvenanceOf(d, from) = Invalid THEN "InvalidSource"
  ELSE IF base # NoValue /\ TransferProof(amount) # UnwrapOrZero(base) THEN "Unauthorized"
  ELSE "Ok"

\* transfer with the anti-forgery check made before the provenance gate
TransferResult_ProofFirst(d, base, from, amount) ==
  IF TransferProof(amount) # UnwrapOrZero(base) THEN "Unauthorized"
  ELSE IF ProvenanceOf(d, from) = Invalid THEN "InvalidSource"
  ELSE "Ok"

\* the outcome of transfer, from the provenance gate and the anti-forgery check
TransferResult(d, base, from, amount) ==
  IF ProvenanceOf(d, from) = Invalid THEN "InvalidSource"
  ELSE IF TransferProof(amount) # UnwrapOrZero(base) THEN "Unauthorized"
  ELSE "Ok"


\* transfer keeping the source a recipient already has
TransferData_KeepRecipient(d, from, to) ==
  [d EXCEPT !.provenance[to] = IF @ = Unset THEN ProvenanceOf(d, from) ELSE @]

\* the PiCoinData stored by a successful transfer
TransferData(d, from, to) == [d EXCEPT !.provenance[to] = ProvenanceOf(d, from)]

\* pub fn transfer
transfer(from, auth, to, amount) ==
  LET call(r) == Call("transfer", from, to, amount, "", r, NoAmount) IN
  IF ~auth THEN Trap(call("AuthDenied"))
  ELSE IF data = NoData THEN Trap(call("Panic"))
  ELSE LET r == TransferResult(data, zkp_base, from, amount) IN
       /\ data' = IF r = "Ok" THEN TransferData(data, from, to) ELSE data
       /\ last' = call(r)
       /\ tick' = 1 - tick
       /\ UNCHANGED <<zkp_base, oracle_data, zkp_proof, ledger>>


\* the peg comparison refusing a deviation of exactly 1000
PegResult_Strict(source, global_price, peg_value) ==
  IF source = Invalid THEN "InvalidSource"
  ELSE IF ~Less(Abs(Minus(global_price, peg_value)), I128(0, 1000)) THEN "PegDeviation"
  ELSE "OkTrue"

\* the outcome of the peg comparison for a holder of the given source
PegResult(source, global_price, peg_value) ==
  IF source = Invalid THEN "InvalidSource"
  ELSE IF Less(I128(0, 1000), Abs(Minus(global_price, peg_value))) THEN "PegDeviation"
  ELSE "OkTrue"

\* pub fn verify_peg; value records the price the call obtained
verify_peg(holder) ==
  LET call(r, p) == Call("verify_peg", holder, "", NoAmount, "", r, p) IN
  IF data = NoData THEN Trap(call("Panic", NoAmount))
  ELSE LET p == query_ai_oracle(data.oracle_address) IN
       /\ last' = call(PegResult(ProvenanceOf(data, holder), p, data.peg_value), p)
       /\ tick' = 1 - tick
       /\ UNCHANGED <<data, zkp_base, oracle_data, zkp_proof, ledger>>

\* pub fn governance_vote
governance_vote(voter, auth, proposal) ==
  LET call(r) == Call("governance_vote", voter, proposal, NoAmount, "", r, NoAmount) IN
  IF ~auth THEN Trap(call("AuthDenied"))
  ELSE IF data = NoData THEN Trap(call("Panic"))
  ELSE /\ last' = call(IF ProvenanceOf(data, voter) = Invalid
                       THEN "InvalidSource" ELSE "Ok")
       /\ tick' = 1 - tick
       /\ UNCHANGED <<data, zkp_base, oracle_data, zkp_proof, ledger>>

\* pub fn verify_ecosystem_entry
verify_ecosystem_entry(holder) ==
  LET call(r) == Call("verify_ecosystem_entry", holder, "", NoAmount, "", r, NoAmount) IN
  IF data = NoData THEN Trap(call("Panic"))
  ELSE /\ last' = call(IF ProvenanceOf(data, holder) = Invalid
                       THEN "OkFalse" ELSE "OkTrue")
       /\ tick' = 1 - tick
       /\ UNCHANGED <<data, zkp_base, oracle_data, zkp_proof, ledger>>

(***************************************************************************)
(* The environment of the ledger contract.                                 *)
(***************************************************************************)
\* the base values a deployment registers under "zkp_base" (test.rs:68 registers
\* sha256([42, 0]))
ZkpBases == {Sha256(BytesOf("", <<0, 42>>)), Sha256(BytesOf("", <<42, 0>>))}

\* env.storage().instance().set("zkp_base", ..)
RegisterZkpBase(base) ==
  /\ zkp_base # base
  /\ zkp_base' = base
  /\ last' = Call("env", "", "", NoAmount, "", "Ok", NoAmount)
  /\ tick' = 1 - tick
  /\ UNCHANGED <<data, oracle_data, zkp_proof, ledger>>

\* env.ledger().set_timestamp(..), the ledger closing
SetLedger(l) ==
  /\ ledger # l
  /\ ledger' = l
  /\ last' = Call("env", "", "", NoAmount, "", "Ok", NoAmount)
  /\ tick' = 1 - tick
  /\ UNCHANGED <<data, zkp_base, oracle_data, zkp_proof>>

(***************************************************************************)
(* The oracle contract.                                                    *)
(***************************************************************************)
\* an entry of price_feed: Map<Symbol, i128>
NoEntry == [present |-> FALSE, price |-> I128(0, 0)]

Entry(price) == [present |-> TRUE, price |-> price]

\* i128::to_be_bytes
ToBeBytes(x) == <<x.hi, x.lo>>

\* ai_predict_price returning the raw price
ai_predict_price_Raw(raw_price) == raw_price

\* fn ai_predict_price
ai_predict_price(raw_price) ==
  LET trend_factor == (ledger.timestamp % 100) \div 10 IN
  Plus(raw_price, I128(0, trend_factor * 1000))

\* verify_zkp_proof accepting every signature while no proof is registered
verify_zkp_proof_AcceptUnset(signature) ==
  zkp_proof = NoValue \/ Sha256(signature) = UnwrapOrZero(zkp_proof)

\* fn verify_zkp_proof
verify_zkp_proof(signature) == Sha256(signature) = UnwrapOrZero(zkp_proof)

\* the OracleData built by initialize
InitialOracleData(admin) ==
  [admin |-> admin,
   price_feed |-> [a \in Assets |-> NoEntry],
   ai_model_hash |-> Sha256(BytesOf("PiCoin-AI-Model-Ultimate", <<>>)),
   quantum_key |-> Ed25519PublicKey(OracleContract)]

\* pub fn initialize (oracle)
oracle_initialize(admin, auth) ==
  LET call(r) == Call("oracle_initialize", admin, "", NoAmount, "", r, NoAmount) IN
  IF ~auth THEN Trap(call("AuthDenied"))
  ELSE /\ oracle_data' = InitialOracleData(admin)
       /\ last' = call("Ok")
       /\ tick' = 1 - tick
       /\ UNCHANGED <<data, zkp_base, zkp_proof, ledger>>

\* the signature update_price makes over the adjusted price
PriceSignature(od, price) == Ed25519Sign(od.quantum_key, ToBeBytes(price))

\* the outcome of update_price, from the administrator check and the proof check
UpdatePriceResult(od, updater, raw_price) ==
  IF updater # od.admin THEN "Unauthorized"
  ELSE IF ~verify_zkp_proof(PriceSignature(od, ai_predict_price(raw_price)))
       THEN "ManipulationDetected"
  ELSE "Ok"

\* the OracleData stored by a successful update_price
UpdatePriceData(od, asset, raw_price) ==
  [od EXCEPT !.price_feed[asset] = Entry(ai_predict_price(raw_price))]

\* update_price storing the price before the proof check
UpdatePriceBody_StoreBeforeProof(op, updater, auth, asset, raw_price) ==
  LET call(r) == Call(op, updater, asset, raw_price, "", r, NoAmount) IN
  IF ~auth THEN Trap(call("AuthDenied"))
  ELSE IF oracle_data = NoData THEN Trap(call("Panic"))
  ELSE LET r == UpdatePriceResult(oracle_data, updater, raw_price) IN
       /\ oracle_data' = IF r # "Unauthorized"
                         THEN UpdatePriceData(oracle_data, asset, raw_price)
                         ELSE oracle_data
       /\ last' = call(r)
       /\ tick' = 1 - tick
       /\ UNCHANGED <<data, zkp_base, zkp_proof, ledger>>

\* the body of update_price, entered as op
UpdatePriceBody(op, updater, auth, asset, raw_price) ==
  LET call(r) == Call(op, updater, asset, raw_price, "", r, NoAmount) IN
  IF ~auth THEN Trap(call("AuthDenied"))
  ELSE IF oracle_data = NoData THEN Trap(call("Panic"))
  ELSE LET r == UpdatePriceResult(oracle_data, updater, raw_price) IN
       /\ oracle_data' = IF r = "Ok" THEN UpdatePriceData(oracle_data, asset, raw_price)
                         ELSE oracle_data
       /\ last' = call(r)
       /\ tick' = 1 - tick
       /\ UNCHANGED <<data, zkp_base, zkp_proof, ledger>>

\* pub fn update_price
update_price(updater, auth, asset, raw_price) ==
  UpdatePriceBody("update_price", updater, auth, asset, raw_price)

\* query_price removing the entry it returns
query_price_Consumes(asset) ==
  LET call(r, p) == Call("query_price", asset, "", NoAmount, "", r, p) IN
  IF oracle_data = NoData THEN Trap(call("Panic", NoAmount))
  ELSE /\ last' = IF oracle_data.price_feed[asset].present
                  THEN call("Ok", oracle_data.price_feed[asset].price)
                  ELSE call("InvalidData", NoAmount)
       /\ oracle_data' = [oracle_data EXCEPT !.price_feed[asset] = NoEntry]
       /\ tick' = 1 - tick
       /\ UNCHANGED <<data, zkp_base, zkp_proof, ledger>>

\* pub fn query_price
query_price(asset) ==
  LET call(r, p) == Call("query_price", asset, "", NoAmount, "", r, p) IN
  IF oracle_data = NoData THEN Trap(call("Panic", NoAmount))
  ELSE /\ last' = IF oracle_data.price_feed[asset].present
                  THEN call("Ok", oracle_data.price_feed[asset].price)
                  ELSE call("InvalidData", NoAmount)
       /\ tick' = 1 - tick
       /\ UNCHANGED <<data, zkp_base, oracle_data, zkp_proof, ledger>>

\* pub fn aggregate_global_data
aggregate_global_data(auth) ==
  LET global_avg == Plus(PegValue, I128(0, ledger.sequence % 5000)) IN
  UpdatePriceBody("aggregate_global_data", OracleContract, auth, "PI", global_avg)

(***************************************************************************)
(* The environment of the oracle contract.                                 *)
(***************************************************************************)
\* the raw prices offered to update_price: the peg, and the peg plus 9000
RawPrices == {PegValue, Plus(PegValue, I128(0, 9000))}

\* the expected proofs a deployment registers under "zkp_proof": the proof of the
\* oracle's signature over one of the prices
ZkpProofs ==
  {Sha256(Ed25519Sign(Ed25519PublicKey(OracleContract), ToBeBytes(p))) : p \in RawPrices}

\* env.storage().instance().set("zkp_proof", ..)
RegisterZkpProof(proof) ==
  /\ zkp_proof # proof
  /\ zkp_proof' = proof
  /\ last' = Call("env", "", "", NoAmount, "", "Ok", NoAmount)
  /\ tick' = 1 - tick
  /\ UNCHANGED <<data, zkp_base, oracle_data, ledger>>

(***************************************************************************)
(* Specifications.                                                         *)
(***************************************************************************)
Init ==
  /\ data = NoData
  /\ zkp_base = NoValue
  /\ oracle_data = NoData
  /\ zkp_proof = NoValue
  /\ ledger = [timestamp |-> 0, sequence |-> 0]
  /\ last = Call("deploy", "", "", NoAmount, "", "Ok", NoAmount)
  /\ tick = 0
  /\ minted = <<>>

Initialize ==
  \E admin \in Holders, auth \in BOOLEAN, c \in CollateralAssets, g \in GovernanceAddrs :
    initialize(admin, auth, c, OracleContract, g) /\ UNCHANGED minted

MintOf(amounts, sources) == \E to \in Holders, amount \in amounts, source \in sources :
  mint(to, amount, source) /\ UNCHANGED minted

Mint == MintOf(Amounts, PiCoinSource)

TransferOf(amounts) ==
  \E from \in Holders, auth \in BOOLEAN, to \in Holders, amount \in amounts :
    transfer(from, auth, to, amount) /\ UNCHANGED minted

Transfer == TransferOf(Amounts)

VerifyPeg == \E holder \in Holders : verify_peg(holder) /\ UNCHANGED minted

GovernanceVote == \E voter \in Holders, auth \in BOOLEAN, proposal \in Proposals :
  governance_vote(voter, auth, proposal) /\ UNCHANGED minted

VerifyEcosystemEntry == \E holder \in Holders :
  verify_ecosystem_entry(holder) /\ UNCHANGED minted

RegisterBase == \E base \in ZkpBases : RegisterZkpBase(base) /\ UNCHANGED minted

CloseLedger == \E l \in Ledgers : SetLedger(l) /\ UNCHANGED minted

NextLedger ==
  \/ Initialize
  \/ Mint
  \/ Transfer
  \/ VerifyPeg
  \/ GovernanceVote
  \/ VerifyEcosystemEntry
  \/ RegisterBase
  \/ CloseLedger

SpecLedger == Init /\ [][NextLedger]_vars

(***************************************************************************)
(* The mints of the ledger contract with their history: every mint that    *)
(* returns Ok adds its amount to minted, and MaxMints successful mints are *)
(* followed.                                                               *)
(***************************************************************************)
MaxMints == 3

MintRecorded == \E to \in Holders, amount \in Amounts, source \in PiCoinSource :
  /\ Len(minted) < MaxMints
  /\ mint(to, amount, source)
  /\ minted' = IF last'.result = "Ok" THEN Append(minted, amount) ELSE minted

NextMint ==
  \/ Initialize
  \/ MintRecorded

SpecMint == Init /\ [][NextMint]_vars

OracleInitialize == \E admin \in {"h1", OracleContract}, auth \in BOOLEAN :
  oracle_initialize(admin, auth) /\ UNCHANGED minted

UpdatePrice ==
  \E updater \in {"h1", OracleContract}, auth \in BOOLEAN, asset \in Assets,
     raw_price \in RawPrices :
    update_price(updater, auth, asset, raw_price) /\ UNCHANGED minted

QueryPrice == \E asset \in Assets : query_price(asset) /\ UNCHANGED minted

AggregateGlobalData == \E auth \in BOOLEAN :
  aggregate_global_data(auth) /\ UNCHANGED minted

RegisterProof == \E proof \in ZkpProofs : RegisterZkpProof(proof) /\ UNCHANGED minted

NextOracle ==
  \/ OracleInitialize
  \/ UpdatePrice
  \/ QueryPrice
  \/ AggregateGlobalData
  \/ RegisterProof
  \/ CloseLedger

SpecOracle == Init /\ [][NextOracle]_vars

\* the oracle under its public operations alone: nothing registers "zkp_proof"
NextOraclePublic ==
  \/ OracleInitialize
  \/ UpdatePrice
  \/ QueryPrice
  \/ AggregateGlobalData
  \/ CloseLedger

SpecOraclePublic == Init /\ [][NextOraclePublic]_vars

(***************************************************************************)
(* Both contracts on one ledger.  The ledger contract is driven with one    *)
(* accepted and one rejected source, and one amount on either side of the   *)
(* collateral balance.                                                      *)
(***************************************************************************)
SysAmounts == {I128(1, 0), I128(200000, 0)}

SysSources == {Mining, Invalid}

SysMint == MintOf(SysAmounts, SysSources)

SysTransfer == TransferOf(SysAmounts)

Next ==
  \/ Initialize
  \/ SysMint
  \/ SysTransfer
  \/ VerifyPeg
  \/ GovernanceVote
  \/ VerifyEcosystemEntry
  \/ OracleInitialize
  \/ UpdatePrice
  \/ QueryPrice
  \/ AggregateGlobalData
  \/ RegisterProof
  \/ CloseLedger

Spec == Init /\ [][Next]_vars

(***************************************************************************)
(* The peg comparison of verify_peg as a function of the price obtained:   *)
(* the inputs are drawn by the initial state and one step applies it.      *)
(***************************************************************************)
\* the prices tried lie within PegSpread of the peg
PegSpread == 1005

InitPeg ==
  /\ data = NoData
  /\ zkp_base = NoValue
  /\ oracle_data = NoData
  /\ zkp_proof = NoValue
  /\ ledger = LedgerInfos[1]
  /\ tick = 0
  /\ minted = <<>>
  /\ last \in {Call("peg_input", "", "", NoAmount, source, "", Plus(PegValue, I128(0, d))) :
                 source \in PiCoinSource, d \in (-PegSpread)..PegSpread}

PegCheck ==
  /\ last.op = "peg_input"
  /\ last' = [last EXCEPT !.op = "peg_check",
                          !.result = PegResult(last.source, last.value, PegValue)]
  /\ tick' = 1 - tick
  /\ UNCHANGED <<data, zkp_base, oracle_data, zkp_proof, ledger, minted>>

NextPeg == PegCheck

SpecPeg == InitPeg /\ [][NextPeg]_vars

(***************************************************************************)
(* Properties.                                                             *)
(***************************************************************************)
ValidSources == {Mining, Rewards, P2P}

\* the invocation returned to its caller (it did not trap)
Returned(call) == call.result \notin {"AuthDenied", "Panic"}

\* the invocation made by this step, on an initialized ledger
LedgerCall(op) == data # NoData /\ last'.op = op /\ Returned(last')

\* an i128 near the peg, as its signed distance from 314_159_000_000
Deviation(price) == (price.hi - 314159) * 1000000 + price.lo

\* amount > 100_000_000_000
ExceedsCollateral(amount) == amount.hi > 100000 \/ (amount.hi = 100000 /\ amount.lo > 0)

\* C1: mint with a source outside {Mining, Rewards, P2P} returns InvalidSource,
\* whatever the recipient and the amount (also one above the collateral), and
\* leaves the provenance map, the provenance integrity hash, total_supply and
\* peg_value as they were.
C1_InvalidSourceRejected ==
  [][(LedgerCall("mint") /\ last'.source \notin ValidSources)
       => /\ last'.result = "InvalidSource"
          /\ data'.provenance = data.provenance
          /\ data'.quantum_provenance_hash = data.quantum_provenance_hash
          /\ data'.total_supply = data.total_supply
          /\ data'.peg_value = data.peg_value]_vars

\* an Invalid-source mint of more than the collateral to a holder was rejected
\* as InvalidSource on a ledger that already records a provenance
C1_Witness ==
  /\ last.op = "mint" /\ last.source = Invalid /\ last.result = "InvalidSource"
  /\ ExceedsCollateral(last.amount)
  /\ data # NoData /\ \E h \in Holders : data.provenance[h] # Unset

\* C2: after a mint that returns Ok the recipient's provenance is the supplied
\* source, whatever it was before, and a verify_ecosystem_entry of the recipient
\* made next returns true.
C2_MintRecordsSource ==
  [][/\ (LedgerCall("mint") /\ last'.result = "Ok")
          => data'.provenance[last'.a] = last'.source
     /\ (last.op = "mint" /\ last.result = "Ok"
           /\ last'.op = "verify_ecosystem_entry" /\ last'.a = last.a)
          => last'.result = "OkTrue"]_vars

\* a holder that had one source was minted to with another, and the entry check
\* of that holder, made next, returned true
C2_Witness ==
  /\ last.op = "verify_ecosystem_entry" /\ last.result = "OkTrue"
  /\ data.provenance[last.a] = Rewards
  /\ data.quantum_provenance_hash = Sha256(Ed25519Sign(LedgerContract, <<SourceVal(Rewards)>>))
  /\ \E h \in Holders : data.provenance[h] = Mining

C4_TransferInheritsSource ==
  [][(LedgerCall("transfer") /\ last'.result = "Ok")
       => /\ data.provenance[last'.a] \in ValidSources
          /\ data'.provenance[last'.b] = data.provenance[last'.a]
          /\ data'.provenance[last'.a] = data.provenance[last'.a]]_vars

\* a transfer between two holders succeeded and the recipient has the sender's source
C4_Witness ==
  /\ last.op = "transfer" /\ last.result = "Ok" /\ last.a # last.b
  /\ data.provenance[last.b] = data.provenance[last.a]
  /\ data.provenance[last.a] \in ValidSources

\* C5: once a holder's provenance is set, no operation of the ledger leaves that
\* holder Unset.
C5_ProvenanceNeverLost ==
  [][\A h \in Holders :
       (data # NoData /\ data.provenance[h] # Unset)
         => (data' # NoData /\ data'.provenance[h] # Unset)]_vars

Errors == {"InvalidSource", "InsufficientCollateral", "Unauthorized", "PegDeviation",
           "ManipulationDetected", "InvalidData"}

\* C6: when mint, transfer, verify_peg, governance_vote, update_price or
\* query_price returns an error, the stored ledger record and the stored oracle
\* record are what they were before the call.
C6_RejectionChangesNothing ==
  [][(last'.op \in {"mint", "transfer", "verify_peg", "governance_vote",
                    "update_price", "query_price"}
        /\ last'.result \in Errors)
       => (data' = data /\ oracle_data' = oracle_data)]_vars

\* a mint to a holder without provenance was rejected for its collateral, with
\* an oracle that holds a price
C6_Witness ==
  /\ last.op = "mint" /\ last.result = "InsufficientCollateral"
  /\ data.provenance[last.a] = Unset
  /\ oracle_data # NoData /\ oracle_data.price_feed["PI"].present

\* C7: for a holder with valid provenance the peg comparison returns Ok(true)
\* exactly when the price obtained is within 1000 of 314_159_000_000, and
\* PegDeviation otherwise.
C7_PegTolerance ==
  (last.op = "peg_check" /\ last.source \in ValidSources)
    => /\ last.result = "OkTrue" <=> (Deviation(last.value) \in (-1000)..1000)
       /\ last.result # "OkTrue" => last.result = "PegDeviation"

\* a deviation of exactly 1000 passed
C7_Witness ==
  /\ last.op = "peg_check" /\ last.source \in ValidSources
  /\ Deviation(last.value) = 1000 /\ last.result = "OkTrue"

\* C8: when the oracle's feed holds a price for PI more than 1000 away from the
\* peg, verify_peg of a holder with valid provenance returns PegDeviation.
C8_PegFollowsOracleFeed ==
  (/\ last.op = "verify_peg" /\ Returned(last) /\ last.result # "InvalidSource"
   /\ oracle_data # NoData /\ oracle_data.price_feed["PI"].present
   /\ Deviation(oracle_data.price_feed["PI"].price) \notin (-1000)..1000)
    => last.result = "PegDeviation"

\* C9: on an initialized ledger verify_peg of a holder with valid provenance
\* returns Ok(true) at every ledger timestamp.
C9_PegStableUnderTime ==
  [][(LedgerCall("verify_peg") /\ data.provenance[last'.a] \in ValidSources)
       => last'.result = "OkTrue"]_vars

\* verify_peg passed at the timestamp 1000000
C9_Witness ==
  /\ last.op = "verify_peg" /\ last.result = "OkTrue"
  /\ ledger.timestamp = 1000000

\* C10: mint with a valid source and an amount above 100_000_000_000 returns
\* InsufficientCollateral and leaves the recipient's provenance as it was; with
\* an amount up to 100_000_000_000 it does not return InsufficientCollateral.
C10_CollateralLimit ==
  [][(LedgerCall("mint") /\ last'.source \in ValidSources)
       => IF ExceedsCollateral(last'.amount)
          THEN /\ last'.result = "InsufficientCollateral"
               /\ data'.provenance[last'.a] = data.provenance[last'.a]
          ELSE last'.result # "InsufficientCollateral"]_vars

\* a mint of 200_000_000_000 to a holder without provenance was refused
C10_Witness ==
  /\ last.op = "mint" /\ last.source \in ValidSources
  /\ last.amount = I128(200000, 0) /\ last.result = "InsufficientCollateral"
  /\ data.provenance[last.a] = Unset

\* the invocation made by this step, on an initialized oracle
OracleCall(op) == oracle_data # NoData /\ last'.op = op /\ Returned(last')

\* raw_price + ((timestamp mod 100) div 10) * 1000
AdjustedPrice(raw_price, timestamp) ==
  [hi |-> raw_price.hi + ((raw_price.lo + ((timestamp % 100) \div 10) * 1000) \div 1000000),
   lo |-> (raw_price.lo + ((timestamp % 100) \div 10) * 1000) % 1000000]

\* the proof of the oracle's signature over a price, and the proof it is compared with
ProofOfPrice(od, price) == Sha256(Ed25519Sign(od.quantum_key, <<price.hi, price.lo>>))

ExpectedProof == IF zkp_proof = NoValue THEN ZeroHash ELSE zkp_proof

\* the update_price part of C11: an updater other than the administrator gets
\* Unauthorized and the price feed is as before.
C11_NonAdminRejected ==
  [][(OracleCall("update_price") /\ last'.a # oracle_data.admin)
       => /\ last'.result = "Unauthorized"
          /\ oracle_data'.price_feed = oracle_data.price_feed]_vars

\* C11: update_price by an updater other than the administrator returns
\* Unauthorized and leaves the price feed unchanged, and every step that changes
\* an entry of the price feed is a call made by the administrator.
C11_OnlyAdminChangesFeed ==
  [][oracle_data # NoData
       => /\ (OracleCall("update_price") /\ last'.a # oracle_data.admin)
               => /\ last'.result = "Unauthorized"
                  /\ oracle_data'.price_feed = oracle_data.price_feed
          /\ (oracle_data' # NoData /\ oracle_data'.price_feed # oracle_data.price_feed)
               => last'.a = oracle_data.admin]_vars

\* C12: update_price by the administrator whose proof does not match the
\* registered expected proof returns ManipulationDetected, and every asset keeps
\* the entry, or the absence of an entry, it had.
C12_ManipulationRejected ==
  [][(/\ OracleCall("update_price") /\ last'.a = oracle_data.admin
      /\ ProofOfPrice(oracle_data, AdjustedPrice(last'.amount, ledger.timestamp))
           # ExpectedProof)
       => /\ last'.result = "ManipulationDetected"
          /\ \A a \in Assets : oracle_data'.price_feed[a] = oracle_data.price_feed[a]]_vars

\* the administrator's update was refused against a registered proof, with an
\* entry in the feed
C12_Witness ==
  /\ last.op = "update_price" /\ last.result = "ManipulationDetected"
  /\ zkp_proof # NoValue
  /\ oracle_data.price_feed["PI"].present /\ ~oracle_data.price_feed["USD"].present

\* the distance from one i128 to a near one
Excess(price, raw_price) == (price.hi - raw_price.hi) * 1000000 + price.lo - raw_price.lo

\* this step is a successful update_price, direct or aggregated, of the asset
PriceWritten(a) ==
  /\ last'.op \in {"update_price", "aggregate_global_data"}
  /\ last'.result = "Ok" /\ last'.b = a

\* C13: a successful update_price stores raw_price + trend * 1000 with
\* trend = (timestamp mod 100) div 10 in 0..9, and an entry of the feed gets a
\* price in no other way.
C13_FeedHoldsAdjustedPrices ==
  [][oracle_data' # NoData
       => \A a \in Assets :
            /\ PriceWritten(a)
                 => /\ oracle_data'.price_feed[a].present
                    /\ \E k \in 0..9 :
                         /\ k = (ledger.timestamp % 100) \div 10
                         /\ Excess(oracle_data'.price_feed[a].price, last'.amount) = k * 1000
            /\ (/\ oracle_data'.price_feed[a].present
                /\ (oracle_data = NoData
                      \/ oracle_data'.price_feed[a] # oracle_data.price_feed[a]))
                 => PriceWritten(a)]_vars

\* the feed holds for PI the price raw_price + 9000 written at the timestamp 999
C13_Witness ==
  /\ last.op = "update_price" /\ last.result = "Ok" /\ last.b = "PI"
  /\ ledger.timestamp = 999 /\ last.amount = [hi |-> 314159, lo |-> 0]
  /\ oracle_data.price_feed["PI"] = [present |-> TRUE, price |-> [hi |-> 314159, lo |-> 9000]]

\* C14: a second initialize of the oracle fails with AlreadyInitialized, and
\* the administrator and the price feed stay what they were.
C14_OracleInitializedOnce ==
  [][oracle_data # NoData
       => /\ (last'.op = "oracle_initialize" /\ Returned(last'))
               => last'.result = "AlreadyInitialized"
          /\ oracle_data' # NoData
          /\ oracle_data'.admin = oracle_data.admin
          /\ \A a \in Assets :
               oracle_data.price_feed[a].present => oracle_data'.price_feed[a].present]_vars

\* C15: on an initialized ledger symbol is PI, total_supply is 100_000_000_000,
\* peg_value is 314_159_000_000 and the anti-fraud hash is the one computed by
\* initialize, whatever operations, further initialize calls included, were made.
C15_ParametersFixed ==
  data # NoData
    => /\ data.symbol = "PI"
       /\ data.total_supply = [hi |-> 100000, lo |-> 0]
       /\ data.peg_value = [hi |-> 314159, lo |-> 0]
       /\ data.anti_fraud_hash
            = [kind |-> "digest",
               pre |-> [lit |-> "PiCoin-Ultimate-Hyper-Tech-Unique", nums |-> <<>>]]

\* a transfer succeeded on a ledger whose holders have been minted to with
\* different sources
C15_Witness ==
  /\ last.op = "transfer" /\ last.result = "Ok"
  /\ \E h \in Holders : data.provenance[h] = Mining
  /\ \E h \in Holders : data.provenance[h] = P2P

\* C16: verify_peg, verify_ecosystem_entry, governance_vote and query_price
\* leave the ledger record and the oracle record as they were, whatever they
\* return, and verify_ecosystem_entry or query_price repeated with the same
\* argument right after itself returns the same result.
C16_ReadOnlyOperations ==
  [][/\ last'.op \in {"verify_peg", "verify_ecosystem_entry", "governance_vote",
                      "query_price"}
          => (data' = data /\ oracle_data' = oracle_data)
     /\ (/\ last'.op \in {"verify_ecosystem_entry", "query_price"}
         /\ last.op = last'.op /\ last.a = last'.a)
          => (last'.result = last.result /\ last'.value = last.value)]_vars

\* query_price returned a stored price
C16_Witness ==
  /\ last.op = "query_price" /\ last.result = "Ok"
  /\ last.value = oracle_data.price_feed[last.a].price
  /\ data # NoData

\* C17: no mint with an amount <= 0 returns Ok or changes the recipient's
\* provenance.
C17_MintNeedsPositiveAmount ==
  [][(LedgerCall("mint") /\ (last'.amount.hi < 0 \/ last'.amount = [hi |-> 0, lo |-> 0]))
       => /\ last'.result # "Ok"
          /\ data'.provenance[last'.a] = data.provenance[last'.a]]_vars

\* the low 8 bits of an amount (1000000 = 64 mod 256)
LowByte(amount) == ((amount.hi % 256) * 64 + amount.lo) % 256

C19_FeedStaysEmpty ==
  [][/\ zkp_proof' = NoValue
     /\ oracle_data' # NoData => \A a \in Assets : ~oracle_data'.price_feed[a].present
     /\ (OracleCall("update_price") \/ OracleCall("aggregate_global_data"))
          => last'.result \in {"Unauthorized", "ManipulationDetected"}
     /\ OracleCall("query_price") => last'.result = "InvalidData"]_vars

\* the administrator's own aggregated update was refused
C19_Witness ==
  /\ last.op = "aggregate_global_data" /\ last.result = "ManipulationDetected"
  /\ oracle_data.admin = last.a

\* the two amounts differ by a multiple of 256 (1000000 = 64 mod 256)
Congruent256(x, y) == ((x.hi - y.hi) * 64 + (x.lo - y.lo)) % 256 = 0

\* C20: two transfers, one right after the other, with the same sender and
\* recipient and amounts congruent modulo 256 have the same outcome.
C20_ProofSeesLowByteOnly ==
  [][(/\ last.op = "transfer" /\ Returned(last)
      /\ last'.op = "transfer" /\ Returned(last')
      /\ last'.a = last.a /\ last'.b = last.b
      /\ Congruent256(last.amount, last'.amount))
       => last'.result = last.result]_vars

\* the base registered for the low byte 0 admitted the amount 200_000_000_000
C20_Witness ==
  /\ last.op = "transfer" /\ last.result = "Ok"
  /\ last.amount = [hi |-> 200000, lo |-> 0]
  /\ zkp_base = Sha256(BytesOf("", <<0, 42>>))

\* C21: on an initialized ledger mint returns Ok exactly when the source is
\* Mining, Rewards or P2P and the amount is at most 100_000_000_000, and
\* InvalidSource or InsufficientCollateral otherwise, whoever the recipient is
\* and whatever was minted before; so the amounts minted can add up to more
\* than total_supply.
C21_MintKeepsNoTotal ==
  [][LedgerCall("mint")
       => /\ last'.result = "Ok"
               <=> (last'.source \in ValidSources /\ ~ExceedsCollateral(last'.amount))
          /\ last'.result \in {"Ok", "InvalidSource", "InsufficientCollateral"}
          /\ minted' = IF last'.result = "Ok" THEN Append(minted, last'.amount)
                        ELSE minted]_vars

\* a mint returned Ok although the mints before it had already passed total_supply
C21_Witness ==
  /\ last.op = "mint" /\ last.result = "Ok"
  /\ Len(minted) >= 2
  /\ minted[Len(minted)] = last.amount
  /\ Less([hi |-> 100000, lo |-> 0], SumOf(SubSeq(minted, 1, Len(minted) - 1)))
  /\ Less([hi |-> 100000, lo |-> 0], SumOf(minted))
  /\ data.total_supply = [hi |-> 100000, lo |-> 0]

====
